---- MODULE Spec2Model ----
(***************************************************************************)
(* Verification model of the FVP compatibility shim:                       *)
(*   src/src/ns_ambiqsuite_harness_fvp.h  - harness function stub set      *)
(*   src/src/cmsis.h                      - guarded macro shim             *)
(*                                                                         *)
(* Spec   : the stub set called by several execution contexts.             *)
(* SpecPP : the C preprocessor working through a translation unit that     *)
(*          includes cmsis.h, possibly after a header that already defined *)
(*          some of the guarded symbols.                                   *)
(***************************************************************************)
EXTENDS Integers, Sequences, FiniteSets, TLC

VARIABLES timer, hist, heap, ref_heap, ref_ret, fault, last,
          macros, genuine, pc, included, diag

rt_vars == <<timer, hist, heap, ref_heap, ref_ret, fault, last>>
pp_vars == <<macros, genuine, pc, included, diag>>
vars == <<timer, hist, heap, ref_heap, ref_ret, fault, last,
          macros, genuine, pc, included, diag>>

(***************************************************************************)
(* Bounds of the model                                                     *)
(***************************************************************************)
MaxBlocks == 2      \* addresses the host allocator can hand out
HeapCap == 2        \* bytes the host heap holds before it is exhausted
MaxIncludes == 2    \* times the translation unit includes cmsis.h

(***************************************************************************)
(* Harness stub set: ns_ambiqsuite_harness_fvp.h                           *)
(***************************************************************************)
\* A uint32_t is kept as its two 16-bit halves, [hi, lo], so that every value
\* of the 32-bit word is representable.
Half == 65536
W(h, l) == [hi |-> h, lo |-> l]
\* conversion of a non-negative int constant to uint32_t
ToU32(x) == W((x \div Half) % Half, x % Half)

\* values a uint32_t field may hold before any stub wrote it: 0 and UINT32_MAX
U32Vals == {W(0, 0), W(Half - 1, Half - 1)}

Timers == {"t1", "t2"}
Contexts == {"main", "isr"}
\* the timer record each execution context owns and passes to the timer stubs
own == [c \in Contexts |-> IF c = "main" THEN "t1" ELSE "t2"]

ns_timer_t == [start_time : U32Vals, duration : U32Vals]

\* variant: init clears every record, not only the one passed
ns_timer_init_all(tm, t) ==
    [x \in DOMAIN tm |-> [start_time |-> ToU32(0), duration |-> ToU32(0)]]

ns_timer_init(tm, t) ==
    LET t1 == [tm EXCEPT ![t].start_time = ToU32(0)]
    IN  [t1 EXCEPT ![t].duration = ToU32(0)]

\* variant: start also stores the mock 1 ms duration
ns_timer_start_sets_duration(tm, t) ==
    [tm EXCEPT ![t] = [start_time |-> ToU32(0), duration |-> ToU32(1000)]]

\* variant: start resets the whole record, as init does
ns_timer_start_resets(tm, t) ==
    [tm EXCEPT ![t] = [start_time |-> ToU32(0), duration |-> ToU32(0)]]

\* variant: start advances start_time instead of resetting it
ns_timer_start_ticks(tm, t) ==
    [tm EXCEPT ![t].start_time = IF @ = ToU32(0) THEN ToU32(1) ELSE ToU32(0)]

ns_timer_start(tm, t) == [tm EXCEPT ![t].start_time = ToU32(0)]

\* The no-op stubs: g is the state a stub could reach, [timer, heap].
ns_core_init(g) == g
ns_core_deinit(g) == g
ns_power_init(g) == g
\* variant: power deinit releases the heap
ns_power_deinit_releases(g) == [g EXCEPT !.heap = [a \in DOMAIN g.heap |-> -1]]

ns_power_deinit(g) == g
am_bsp_low_power_init(g) == g
am_bsp_low_power_exit(g) == g
am_hal_interrupt_master_enable(g) == g
am_hal_interrupt_master_disable(g) == g
am_hal_sysctrl_sleep(g) == g
am_hal_sysctrl_deepsleep(g) == g

NoOpStubs == {"ns_core_init", "ns_core_deinit", "ns_power_init", "ns_power_deinit",
              "am_bsp_low_power_init", "am_bsp_low_power_exit",
              "am_hal_interrupt_master_enable", "am_hal_interrupt_master_disable",
              "am_hal_sysctrl_sleep", "am_hal_sysctrl_deepsleep"}

NoOp(f, g) ==
    CASE f = "ns_core_init" -> ns_core_init(g)
      [] f = "ns_core_deinit" -> ns_core_deinit(g)
      [] f = "ns_power_init" -> ns_power_init(g)
      [] f = "ns_power_deinit" -> ns_power_deinit(g)
      [] f = "am_bsp_low_power_init" -> am_bsp_low_power_init(g)
      [] f = "am_bsp_low_power_exit" -> am_bsp_low_power_exit(g)
      [] f = "am_hal_interrupt_master_enable" -> am_hal_interrupt_master_enable(g)
      [] f = "am_hal_interrupt_master_disable" -> am_hal_interrupt_master_disable(g)
      [] f = "am_hal_sysctrl_sleep" -> am_hal_sysctrl_sleep(g)
      [] f = "am_hal_sysctrl_deepsleep" -> am_hal_sysctrl_deepsleep(g)

(***************************************************************************)
(* The host allocator the memory stubs forward to.  A heap maps each       *)
(* address to the size of the live block there, or Free.                   *)
(***************************************************************************)
NULL == 0
Free == -1
Addrs == 1..MaxBlocks
\* sizes passed to ns_malloc: nothing, one byte, the whole heap
Sizes == {0, 1, HeapCap}
Ptrs == Addrs \cup {NULL}
EmptyHeap == [a \in Addrs |-> Free]
Live(h) == {a \in Addrs : h[a] # Free}

RECURSIVE SumSizes(_, _)
SumSizes(h, S) ==
    IF S = {} THEN 0
    ELSE LET a == CHOOSE x \in S : TRUE IN h[a] + SumSizes(h, S \ {a})
Used(h) == SumSizes(h, Live(h))

\* The results the host malloc can give for size in heap h: null when no
\* address or not enough room is left; for size 0 null or a unique pointer.
MallocPicks(h, size) ==
    LET free == Addrs \ Live(h)
    IN  IF free = {} \/ Used(h) + size > HeapCap THEN {NULL}
        ELSE IF size = 0 THEN free \cup {NULL}
        ELSE free

\* pick is the allocator's own choice among the results it can give; a choice
\* it cannot give falls back to the lowest one.
malloc(h, size, pick) ==
    LET ok == MallocPicks(h, size)
        p == IF pick \in ok THEN pick ELSE CHOOSE x \in ok : \A y \in ok : x <= y
    IN  IF p = NULL THEN [heap |-> h, ret |-> NULL]
        ELSE [heap |-> [h EXCEPT ![p] = size], ret |-> p]

\* free(NULL) does nothing; free of a pointer that is not live is undefined
\* behaviour: ub is the outcome the build produces ("fault" or "ignored").
UBOutcomes == {"fault", "ignored"}
free(h, ptr, ub) ==
    IF ptr = NULL THEN [heap |-> h, fault |-> FALSE]
    ELSE IF h[ptr] # Free THEN [heap |-> [h EXCEPT ![ptr] = Free], fault |-> FALSE]
    ELSE [heap |-> h, fault |-> (ub = "fault")]

\* variant: the stub refuses requests above one byte itself
ns_malloc_refuses(h, size, pick) ==
    IF size > 1 THEN [heap |-> h, ret |-> NULL] ELSE malloc(h, size, pick)

ns_malloc(h, size, pick) == malloc(h, size, pick)

\* variant: the stub does not forward to free
ns_free_leaks(h, ptr, ub) == [heap |-> h, fault |-> FALSE]

ns_free(h, ptr, ub) == free(h, ptr, ub)

(***************************************************************************)
(* State of the stub set                                                   *)
(*   timer    : the caller-owned timer records                             *)
(*   heap     : live allocations of the host heap, driven through the stubs*)
(*   ref_heap : the heap the same calls made directly on malloc/free reach *)
(*   ref_ret  : what the direct malloc returned for the last ns_malloc     *)
(*   fault    : the process faulted                                        *)
(*   last     : the last stub call: the stub ("noop" for any of the no-op  *)
(*              stubs) and the pointer it returned                         *)
(*   hist     : per record, the timer calls made on it: "none", "start"    *)
(*              (started, never initialised), "init" (ns_timer_init was the*)
(*              last), "init_start" (initialised, ns_timer_start the last) *)
(***************************************************************************)
NoCall == [op |-> "none", ret |-> 0]

inited(t) == hist[t] \in {"init", "init_start"}

G == [timer |-> timer, heap |-> heap]

Call(f, r) == [op |-> f, ret |-> r]

PPIdle ==
    UNCHANGED pp_vars

Call_ns_timer_init(c) ==
    /\ ~fault
    /\ timer' = ns_timer_init(timer, own[c])
    /\ hist' = [hist EXCEPT ![own[c]] = "init"]
    /\ last' = Call("ns_timer_init", NULL)
    /\ UNCHANGED <<heap, ref_heap, ref_ret, fault>>
    /\ PPIdle

Call_ns_timer_start(c) ==
    /\ ~fault
    /\ timer' = ns_timer_start(timer, own[c])
    /\ hist' = [hist EXCEPT ![own[c]] =
                   IF @ \in {"init", "init_start"} THEN "init_start" ELSE "start"]
    /\ last' = Call("ns_timer_start", NULL)
    /\ UNCHANGED <<heap, ref_heap, ref_ret, fault>>
    /\ PPIdle

Call_noop(c, f) ==
    /\ ~fault
    /\ timer' = NoOp(f, G).timer
    /\ heap' = NoOp(f, G).heap
    /\ last' = Call("noop", NULL)
    /\ UNCHANGED <<hist, ref_heap, ref_ret, fault>>
    /\ PPIdle

Call_ns_malloc(c, size) ==
    /\ ~fault
    /\ \E pick \in MallocPicks(heap, size) :
          LET r == ns_malloc(heap, size, pick)
              d == malloc(ref_heap, size, pick)
          IN  /\ heap' = r.heap
              /\ last' = Call("ns_malloc", r.ret)
              /\ ref_heap' = d.heap
              /\ ref_ret' = d.ret
    /\ UNCHANGED <<timer, hist, fault>>
    /\ PPIdle

Call_ns_free(c, ptr) ==
    /\ ~fault
    /\ \E ub \in UBOutcomes :
          LET r == ns_free(heap, ptr, ub)
              d == free(ref_heap, ptr, ub)
          IN  /\ heap' = r.heap
              /\ fault' = r.fault
              /\ ref_heap' = d.heap
    /\ last' = Call("ns_free", NULL)
    /\ UNCHANGED <<timer, hist, ref_ret>>
    /\ PPIdle

(***************************************************************************)
(* Guarded macro shim: cmsis.h, as the preprocessor works through it.      *)
(*   macros   : the macro table, symbol -> replacement body                *)
(*   genuine  : the definitions made by headers other than the shim        *)
(*   pc       : the line of cmsis.h about to be processed; 0 outside it    *)
(*   included : how many times the translation unit has included cmsis.h   *)
(*   diag     : "ok"; "redefined" once a #define ran for a symbol already  *)
(*              defined with the same body; "error" once one ran with a    *)
(*              different body (a redefinition error)                      *)
(***************************************************************************)
Guarded == {"CoreDebug", "DWT", "DWT_CTRL_CYCCNTENA_Msk", "DWT_CTRL_CYCCNTENA_Pos",
            "CoreDebug_DEMCR_TRCENA_Msk", "CoreDebug_DEMCR_TRCENA_Pos",
            "DWT_LAR", "__DSB", "__ISB"}
Syms == Guarded \cup {"CMSIS_H"}

\* A replacement body: a number, (1UL << <ref>), or other text.
Undef == [kind |-> "undef", val |-> W(0, 0), ref |-> ""]
Num(w) == [kind |-> "num", val |-> w, ref |-> ""]
Shl1UL(p) == [kind |-> "shl1", val |-> ToU32(1), ref |-> p]
Text(s) == [kind |-> "text", val |-> W(0, 0), ref |-> s]

NoMacros == [s \in Syms |-> Undef]

\* The body each #define of cmsis.h gives its symbol.
\* variant: the TRCENA mask is built from the CYCCNTENA position
ShimBody_wrong_pos(sym) ==
    CASE sym = "CMSIS_H" -> Text("")
      [] sym = "CoreDebug" -> Text("((CoreDebug_Type *) CoreDebug_BASE)")
      [] sym = "DWT" -> Text("((DWT_Type *) DWT_BASE)")
      [] sym = "DWT_CTRL_CYCCNTENA_Msk" -> Shl1UL("DWT_CTRL_CYCCNTENA_Pos")
      [] sym = "DWT_CTRL_CYCCNTENA_Pos" -> Num(ToU32(0))
      [] sym = "CoreDebug_DEMCR_TRCENA_Msk" -> Shl1UL("DWT_CTRL_CYCCNTENA_Pos")
      [] sym = "CoreDebug_DEMCR_TRCENA_Pos" -> Num(ToU32(24))
      [] sym = "DWT_LAR" -> Num(W(50604, 52821))
      [] sym = "__DSB" -> Text("__asm volatile (\"dsb\" ::: \"memory\")")
      [] sym = "__ISB" -> Text("__asm volatile (\"isb\" ::: \"memory\")")

ShimBody(sym) ==
    CASE sym = "CMSIS_H" -> Text("")
      [] sym = "CoreDebug" -> Text("((CoreDebug_Type *) CoreDebug_BASE)")
      [] sym = "DWT" -> Text("((DWT_Type *) DWT_BASE)")
      [] sym = "DWT_CTRL_CYCCNTENA_Msk" -> Shl1UL("DWT_CTRL_CYCCNTENA_Pos")
      [] sym = "DWT_CTRL_CYCCNTENA_Pos" -> Num(ToU32(0))
      [] sym = "CoreDebug_DEMCR_TRCENA_Msk" -> Shl1UL("CoreDebug_DEMCR_TRCENA_Pos")
      [] sym = "CoreDebug_DEMCR_TRCENA_Pos" -> Num(ToU32(24))
      [] sym = "DWT_LAR" -> Num(W(50604, 52821))      \* 0xC5ACCE55U
      [] sym = "__DSB" -> Text("__asm volatile (\"dsb\" ::: \"memory\")")
      [] sym = "__ISB" -> Text("__asm volatile (\"isb\" ::: \"memory\")")

\* #ifndef sym
\* variant: the condition is always taken
IfNDef_always(table, sym) == TRUE

IfNDef(table, sym) == table[sym].kind = "undef"

\* #define sym body: the new table, and what the preprocessor diagnoses.
Define(table, sym, body) ==
    [macros |-> [table EXCEPT ![sym] = body],
     diag |-> IF table[sym] = Undef THEN "ok"
              ELSE IF table[sym] = body THEN "redefined"
              ELSE "error"]

\* variant: the #define is not guarded
GuardedDefine_unguarded(table, sym, body) ==
    [macros |-> [table EXCEPT ![sym] = body],
     diag |-> IF table[sym] = Undef THEN "ok"
              ELSE IF table[sym] = body THEN "redefined"
              ELSE "error"]

\* #ifndef sym / #define sym body / #endif
GuardedDefine(table, sym, body) ==
    IF IfNDef(table, sym) THEN Define(table, sym, body)
    ELSE [macros |-> table, diag |-> "ok"]

Worse(d1, d2) ==
    IF "error" \in {d1, d2} THEN "error"
    ELSE IF "redefined" \in {d1, d2} THEN "redefined"
    ELSE "ok"

\* Bodies a header other than the shim gives a guarded symbol.
PosValues == {0, 24, 31}
GenuineBodies(sym) ==
    CASE sym \in {"DWT_CTRL_CYCCNTENA_Pos", "CoreDebug_DEMCR_TRCENA_Pos"} ->
             {Num(ToU32(p)) : p \in PosValues}
      [] sym \in {"DWT_CTRL_CYCCNTENA_Msk", "CoreDebug_DEMCR_TRCENA_Msk"} ->
             {Num(W(0, 128))}
      [] sym = "DWT_LAR" -> {Num(W(0, 0))}
      [] sym = "CoreDebug" -> {Text("((CoreDebug_Type *) 0xE000EDF0UL)")}
      [] sym = "DWT" -> {Text("((DWT_Type *) 0xE0001000UL)")}
      [] sym = "__DSB" -> {Text("__builtin_arm_dsb(0xF)")}
      [] sym = "__ISB" -> {Text("__builtin_arm_isb(0xF)")}

\* Tables a prior header can leave: any subset of the guarded symbols defined.
MayBe(sym) == GenuineBodies(sym) \cup {Undef}
Predefined ==
    {("CMSIS_H" :> Undef) @@ ("CoreDebug" :> cd) @@ ("DWT" :> dwt)
        @@ ("DWT_CTRL_CYCCNTENA_Msk" :> m1) @@ ("DWT_CTRL_CYCCNTENA_Pos" :> p1)
        @@ ("CoreDebug_DEMCR_TRCENA_Msk" :> m2) @@ ("CoreDebug_DEMCR_TRCENA_Pos" :> p2)
        @@ ("DWT_LAR" :> lar) @@ ("__DSB" :> dsb) @@ ("__ISB" :> isb) :
        cd \in MayBe("CoreDebug"), dwt \in MayBe("DWT"),
        m1 \in MayBe("DWT_CTRL_CYCCNTENA_Msk"), p1 \in MayBe("DWT_CTRL_CYCCNTENA_Pos"),
        m2 \in MayBe("CoreDebug_DEMCR_TRCENA_Msk"), p2 \in MayBe("CoreDebug_DEMCR_TRCENA_Pos"),
        lar \in MayBe("DWT_LAR"), dsb \in MayBe("__DSB"), isb \in MayBe("__ISB")}

\* The symbols the compiler headers included at lines 7-8 may supply.
VendorSyms == {"__DSB", "__ISB"}

\* Value of a word shifted left by n (a 32-bit unsigned long, n in 0..31).
IllFormed == W(-1, -1)
Shl32(w, n) ==
    IF n < 16
    THEN W((((w.hi * (2 ^ n)) % Half) + ((w.lo * (2 ^ n)) \div Half)) % Half,
           (w.lo * (2 ^ n)) % Half)
    ELSE W((w.lo * (2 ^ (n - 16))) % Half, 0)

\* The value a use of sym expands to under the table in effect at the use.
Eval(table, sym) ==
    LET b == table[sym]
    IN  CASE b.kind = "num" -> b.val
          [] b.kind = "shl1" ->
                 IF table[b.ref].kind = "num" /\ table[b.ref].val.hi = 0
                    /\ table[b.ref].val.lo < 32
                 THEN Shl32(b.val, table[b.ref].val.lo)
                 ELSE IllFormed
          [] OTHER -> IllFormed

Compiling == diag # "error"

\* #include "cmsis.h": lines 1-2, the include guard
Include_cmsis_h ==
    /\ pc = 0 /\ Compiling /\ included < MaxIncludes
    /\ included' = included + 1
    /\ IF IfNDef(macros, "CMSIS_H")
       THEN LET r == Define(macros, "CMSIS_H", ShimBody("CMSIS_H"))
            IN  macros' = r.macros /\ diag' = Worse(diag, r.diag) /\ pc' = 7
       ELSE macros' = macros /\ diag' = diag /\ pc' = 55
    /\ UNCHANGED <<genuine>>
    /\ UNCHANGED rt_vars

\* lines 7 and 8: a compiler header, which may define barrier macros that
\* are not defined yet
VendorInclude(line, next) ==
    /\ pc = line /\ Compiling
    /\ \E D \in SUBSET {s \in VendorSyms : IfNDef(macros, s)} :
       \E g \in [D -> UNION {GenuineBodies(s) : s \in VendorSyms}] :
          /\ \A s \in D : g[s] \in GenuineBodies(s)
          /\ macros' = [s \in Syms |-> IF s \in D THEN g[s] ELSE macros[s]]
          /\ genuine' = [s \in Syms |-> IF s \in D THEN g[s] ELSE genuine[s]]
    /\ pc' = next
    /\ UNCHANGED <<included, diag>>
    /\ UNCHANGED rt_vars

Include_cmsis_compiler_h == VendorInclude(7, 8)
Include_cmsis_gcc_h == VendorInclude(8, 11)

\* one guarded block of cmsis.h: #ifndef sym / #define sym ... / #endif
Block(line, sym, next) ==
    /\ pc = line /\ Compiling
    /\ LET r == GuardedDefine(macros, sym, ShimBody(sym))
       IN  macros' = r.macros /\ diag' = Worse(diag, r.diag)
    /\ pc' = next
    /\ UNCHANGED <<genuine, included>>
    /\ UNCHANGED rt_vars

Block_CoreDebug == Block(11, "CoreDebug", 16)
Block_DWT == Block(16, "DWT", 21)
Block_DWT_CTRL_CYCCNTENA_Msk == Block(21, "DWT_CTRL_CYCCNTENA_Msk", 25)
Block_DWT_CTRL_CYCCNTENA_Pos == Block(25, "DWT_CTRL_CYCCNTENA_Pos", 30)
Block_CoreDebug_DEMCR_TRCENA_Msk == Block(30, "CoreDebug_DEMCR_TRCENA_Msk", 34)
Block_CoreDebug_DEMCR_TRCENA_Pos == Block(34, "CoreDebug_DEMCR_TRCENA_Pos", 39)
Block_DWT_LAR == Block(39, "DWT_LAR", 47)
Block_DSB == Block(47, "__DSB", 51)
Block_ISB == Block(51, "__ISB", 55)

\* line 55: #endif of the include guard, back to the including file
Endif_CMSIS_H ==
    /\ pc = 55 /\ Compiling
    /\ pc' = 0
    /\ UNCHANGED <<macros, genuine, included, diag>>
    /\ UNCHANGED rt_vars

PPInitIdle ==
    /\ macros = NoMacros
    /\ genuine = NoMacros
    /\ pc = 0
    /\ included = 0
    /\ diag = "ok"

Init ==
    /\ timer \in [Timers -> ns_timer_t]
    /\ hist = [t \in Timers |-> "none"]
    /\ heap = EmptyHeap
    /\ ref_heap = EmptyHeap
    /\ ref_ret = NULL
    /\ fault = FALSE
    /\ last = NoCall
    /\ PPInitIdle

Next ==
    \/ \E c \in Contexts : Call_ns_timer_init(c)
    \/ \E c \in Contexts : Call_ns_timer_start(c)
    \/ \E c \in Contexts, f \in NoOpStubs : Call_noop(c, f)
    \/ \E c \in Contexts, size \in Sizes : Call_ns_malloc(c, size)
    \/ \E c \in Contexts, ptr \in Ptrs : Call_ns_free(c, ptr)

Spec == Init /\ [][Next]_vars

RTInitIdle ==
    /\ timer = [t \in Timers |-> [start_time |-> W(0, 0), duration |-> W(0, 0)]]
    /\ hist = [t \in Timers |-> "none"]
    /\ heap = EmptyHeap
    /\ ref_heap = EmptyHeap
    /\ ref_ret = NULL
    /\ fault = FALSE
    /\ last = NoCall

InitPP ==
    /\ macros \in Predefined
    /\ genuine = macros
    /\ pc = 0
    /\ included = 0
    /\ diag = "ok"
    /\ RTInitIdle

NextPP ==
    \/ Include_cmsis_h
    \/ Include_cmsis_compiler_h
    \/ Include_cmsis_gcc_h
    \/ Block_CoreDebug
    \/ Block_DWT
    \/ Block_DWT_CTRL_CYCCNTENA_Msk
    \/ Block_DWT_CTRL_CYCCNTENA_Pos
    \/ Block_CoreDebug_DEMCR_TRCENA_Msk
    \/ Block_CoreDebug_DEMCR_TRCENA_Pos
    \/ Block_DWT_LAR
    \/ Block_DSB
    \/ Block_ISB
    \/ Endif_CMSIS_H

SpecPP == InitPP /\ [][NextPP]_vars

(***************************************************************************)
(* Properties of the stub set (checked under Spec)                         *)
(***************************************************************************)
Zero == W(0, 0)
ZeroRec == [start_time |-> Zero, duration |-> Zero]

\* The step is a call of the stub by context c (the stub a step calls is the
\* one it records in last).
Init_by(c) == last'.op = "ns_timer_init" /\ Call_ns_timer_init(c)
Start_by(c) == last'.op = "ns_timer_start" /\ Call_ns_timer_start(c)
NoOp_by(c, f) == last'.op = "noop" /\ Call_noop(c, f)
Malloc_by(c, size) == last'.op = "ns_malloc" /\ Call_ns_malloc(c, size)
Free_by(c, ptr) == last'.op = "ns_free" /\ Call_ns_free(c, ptr)

StepBy(c) ==
    \/ Init_by(c)
    \/ Start_by(c)
    \/ \E f \in NoOpStubs : NoOp_by(c, f)
    \/ \E size \in Sizes : Malloc_by(c, size)
    \/ \E ptr \in Ptrs : Free_by(c, ptr)

\* C1: for every timer record, whatever its fields hold, ns_timer_init then
\* ns_timer_start leaves start_time = 0 and duration = 0, the value init gave.
C1_InitThenStart ==
    \A t \in Timers :
        /\ LET a == ns_timer_init(timer, t)
               b == ns_timer_start(a, t)
           IN  /\ b[t].start_time = Zero
               /\ b[t].duration = a[t].duration
               /\ a[t].duration = Zero
        /\ hist[t] = "init_start" => timer[t] = ZeroRec

C1_Witness ==
    /\ hist["t1"] = "init_start"
    /\ last.op = "ns_timer_start"
    /\ timer["t1"] = ZeroRec
    /\ timer["t2"].duration # Zero

\* C2: every no-op stub can be called in any state of a running process,
\* whatever calls came before, and its call returns leaving every timer record
\* and the set of live heap allocations as they were.
C2_NoOpFrame ==
    /\ [](~fault => \A c \in Contexts, f \in NoOpStubs : ENABLED Call_noop(c, f))
    /\ [][\A c \in Contexts, f \in NoOpStubs :
            \* (contrapositive of: a no-op call leaves all three as they were)
            ~(timer' = timer /\ heap' = heap /\ ~fault') => ~NoOp_by(c, f)]_vars

C2_Witness ==
    /\ last.op = "noop"
    /\ \A t \in Timers : hist[t] = "none"
    /\ Live(heap) # {}
    /\ timer["t1"].duration # Zero

\* C5: ns_malloc and ns_free forward to the host allocator: the heap reached
\* through the stubs is the heap the same direct malloc/free calls reach,
\* ns_malloc returns what malloc returns (a block not live before, of at least
\* the requested size, or null), and ns_free of a live pointer releases that
\* block without a fault.
C5_Forwarding ==
    /\ [](/\ heap = ref_heap
          /\ last.op = "ns_malloc" =>
                /\ last.ret = ref_ret
                /\ last.ret # NULL => last.ret \in Live(heap))
    /\ [][/\ \A c \in Contexts, size \in Sizes :
               Malloc_by(c, size) =>
                   /\ last'.ret \in MallocPicks(heap, size)
                   /\ last'.ret # NULL =>
                         /\ heap[last'.ret] = Free
                         /\ heap'[last'.ret] >= size
                         /\ \A a \in Addrs \ {last'.ret} : heap'[a] = heap[a]
          /\ \A c \in Contexts, ptr \in Live(heap) :
               Free_by(c, ptr) =>
                   /\ ~fault'
                   /\ heap' = [heap EXCEPT ![ptr] = Free]]_vars

C5_Witness ==
    /\ last.op = "ns_free"
    /\ ~fault
    /\ ref_ret # NULL
    /\ ref_ret \notin Live(heap)
    /\ Live(heap) # {}

\* C6: the only stub whose call can report a failure is ns_malloc; it returns
\* null exactly when the host malloc does, a failed ns_malloc leaves the live
\* allocations and every timer record unchanged, and every other stub call
\* (ns_free of null or of a live pointer included) completes without a fault.
C6_NoOwnFailure ==
    [][/\ \A c \in Contexts, size \in Sizes :
            Malloc_by(c, size) =>
                /\ (last'.ret = NULL) <=> (ref_ret' = NULL)
                /\ MallocPicks(heap, size) = {NULL} => last'.ret = NULL
                /\ last'.ret = NULL => NULL \in MallocPicks(heap, size)
                /\ last'.ret = NULL => heap' = heap /\ timer' = timer
                /\ ~fault'
       /\ \A c \in Contexts :
            (\/ Init_by(c)
             \/ Start_by(c)
             \/ \E f \in NoOpStubs : NoOp_by(c, f)) => ~fault' /\ last'.ret = NULL
       /\ \A c \in Contexts, ptr \in Live(heap) \cup {NULL} :
            Free_by(c, ptr) => ~fault']_vars

C6_Witness ==
    /\ last.op = "ns_malloc"
    /\ last.ret = NULL
    /\ Used(heap) = HeapCap
    /\ ~fault

\* What context d can observe through its stubs: its timer record, and the
\* results ns_malloc can give it.
View(d) == [rec |-> timer[own[d]],
            alloc |-> [size \in Sizes |-> MallocPicks(heap, size)]]

\* C7 as stated: a stub call by one context changes nothing another context
\* (using its own timer record) can observe through any stub, ns_malloc and
\* ns_free included.
C7_Stated ==
    [][\A c \in Contexts : StepBy(c) =>
          \A d \in Contexts \ {c} : View(d)' = View(d)]_vars

\* C7 amended: a stub call by one context never changes the timer record of
\* another context; the timer and no-op stubs leave the heap alone and the
\* memory stubs leave every timer record alone.  (The heap ns_malloc and
\* ns_free work on is shared by all contexts.)
\* (Each conjunct is written as its contrapositive: a step that changes the
\* state in question is not a call of that kind.)
C7_RecordsIsolated ==
    [][\A c \in Contexts :
          /\ (\E d \in Contexts \ {c} : timer'[own[d]] # timer[own[d]]) => ~StepBy(c)
          /\ heap' # heap => ~(\/ Init_by(c)
                               \/ Start_by(c)
                               \/ \E f \in NoOpStubs : NoOp_by(c, f))
          /\ timer' # timer => ~(\/ \E size \in Sizes : Malloc_by(c, size)
                                 \/ \E ptr \in Ptrs : Free_by(c, ptr))]_vars

C7_Witness ==
    /\ hist["t1"] = "init"
    /\ hist["t2"] = "start"
    /\ timer["t2"].duration # Zero
    /\ Live(heap) # {}

\* C8 amended: every timer and no-op stub is idempotent: in every reachable
\* state f twice in a row gives the state f once gives, ns_timer_init gives
\* (0, 0) whatever calls came before, and a repeated ns_timer_init or
\* ns_timer_start on a record changes nothing.
C8_TimerNoOpIdempotent ==
    /\ [](/\ \A t \in Timers :
               /\ ns_timer_init(ns_timer_init(timer, t), t) = ns_timer_init(timer, t)
               /\ ns_timer_start(ns_timer_start(timer, t), t) = ns_timer_start(timer, t)
               /\ ns_timer_init(timer, t)[t] = ZeroRec
               /\ ns_timer_start(timer, t)[t] = [timer[t] EXCEPT !.start_time = Zero]
          /\ \A f \in NoOpStubs : NoOp(f, NoOp(f, G)) = NoOp(f, G))
    /\ [][\A c \in Contexts :
            /\ (Init_by(c) /\ hist[own[c]] = "init") => timer' = timer
            /\ (Start_by(c) /\ hist[own[c]] \in {"start", "init_start"})
                  => timer' = timer]_vars

\* C8 as stated: every stub is idempotent, ns_malloc included: an ns_malloc
\* call that repeats the ns_malloc call just made (same size, which gave the
\* block last.ret) leaves the global state as that first call left it.
C8_Stated ==
    /\ C8_TimerNoOpIdempotent
    /\ [][\A c \in Contexts, size \in Sizes :
            (/\ last.op = "ns_malloc" /\ last.ret # NULL /\ heap[last.ret] = size
             /\ Malloc_by(c, size)) => heap' = heap /\ timer' = timer]_vars

C8_Witness ==
    /\ hist["t1"] = "start"
    /\ last.op = "ns_timer_start"
    /\ timer["t1"].duration # Zero
    /\ hist["t2"] = "init"

\* C9: ns_timer_start writes only start_time: the record passed has
\* start_time = 0 and its duration as before, and no other record changes;
\* once ns_timer_init was called on a record it is (0, 0) ever after.
C9_StartWritesStartTime ==
    /\ [][\A c \in Contexts :
            Start_by(c) =>
                /\ timer'[own[c]].start_time = Zero
                /\ timer'[own[c]].duration = timer[own[c]].duration
                /\ \A t \in Timers \ {own[c]} : timer'[t] = timer[t]]_vars
    /\ [](\A t \in Timers : inited(t) => timer[t] = ZeroRec)

C9_Witness ==
    /\ hist["t2"] = "start"
    /\ timer["t2"].start_time = Zero
    /\ timer["t2"].duration = W(Half - 1, Half - 1)
    /\ inited("t1")
    /\ last.op = "noop"

(***************************************************************************)
(* Properties of the macro shim (checked under SpecPP)                     *)
(***************************************************************************)
Processed == pc = 0 /\ included >= 1 /\ diag = "ok"
FirstDone == included > 1 \/ (included = 1 /\ pc = 0)

MskPos == {<<"DWT_CTRL_CYCCNTENA_Msk", "DWT_CTRL_CYCCNTENA_Pos">>,
           <<"CoreDebug_DEMCR_TRCENA_Msk", "CoreDebug_DEMCR_TRCENA_Pos">>}
Numeric == {"DWT_CTRL_CYCCNTENA_Msk", "DWT_CTRL_CYCCNTENA_Pos",
            "CoreDebug_DEMCR_TRCENA_Msk", "CoreDebug_DEMCR_TRCENA_Pos", "DWT_LAR"}

IsWord(w) == w.hi \in 0..(Half - 1) /\ w.lo \in 0..(Half - 1)
Bit(w, i) == IF i < 16 THEN (w.lo \div (2 ^ i)) % 2 ELSE (w.hi \div (2 ^ (i - 16))) % 2
\* w = 2^p
IsPow2(w, p) == IsWord(w) /\ \A i \in 0..31 : Bit(w, i) = (IF i = p THEN 1 ELSE 0)

\* C3: a guarded symbol that a header other than the shim defined keeps that
\* definition; the shim changes a symbol's definition only when it had none.
C3_GenuineKept ==
    /\ [](\A s \in Guarded : genuine[s] # Undef => macros[s] = genuine[s])
    /\ [][\A s \in Syms : macros[s] # Undef => macros'[s] = macros[s]]_vars

C3_Witness ==
    /\ Processed
    /\ genuine["DWT"] # Undef /\ macros["DWT"] = genuine["DWT"]
    /\ macros["DWT"] # ShimBody("DWT")
    /\ genuine["CoreDebug"] = Undef /\ macros["CoreDebug"] = ShimBody("CoreDebug")
    /\ genuine["CoreDebug_DEMCR_TRCENA_Pos"] = Num(ToU32(31))

\* C4: no #define of the shim runs for a symbol already defined, so no
\* redefinition is ever diagnosed, and once cmsis.h has been processed a
\* further inclusion leaves the macro table as it is.
C4_NoRedefinition ==
    /\ [](diag = "ok")
    /\ [][FirstDone => macros' = macros]_vars

C4_Witness ==
    /\ included = 2 /\ pc = 0 /\ diag = "ok"
    /\ genuine["DWT_CTRL_CYCCNTENA_Msk"] # Undef
    /\ genuine["DWT_CTRL_CYCCNTENA_Pos"] = Undef
    /\ genuine["__ISB"] # Undef

\* C10: after cmsis.h, each mask the shim supplied is 1 shifted left by the
\* position in effect: nothing predefined gives positions 0 and 24, masks 1
\* and 2^24, and DWT_LAR 0xC5ACCE55; a predefined position p (0..31) is kept
\* and gives the mask 2^p; every value is a 32-bit word.
C10_MaskIsBitAtPos ==
    Processed =>
        /\ \A mp \in MskPos :
              genuine[mp[1]] = Undef =>
                  LET pos == Eval(macros, mp[2])
                      msk == Eval(macros, mp[1])
                  IN  /\ IsWord(pos) /\ pos.hi = 0 /\ pos.lo <= 31
                      /\ IsPow2(msk, pos.lo)
                      /\ genuine[mp[2]] # Undef => pos = genuine[mp[2]].val
        /\ (\A s \in Numeric : genuine[s] = Undef) =>
              /\ Eval(macros, "DWT_CTRL_CYCCNTENA_Pos") = W(0, 0)
              /\ Eval(macros, "DWT_CTRL_CYCCNTENA_Msk") = W(0, 1)
              /\ Eval(macros, "CoreDebug_DEMCR_TRCENA_Pos") = W(0, 24)
              /\ Eval(macros, "CoreDebug_DEMCR_TRCENA_Msk") = W(256, 0)
              /\ Eval(macros, "DWT_LAR") = W(50604, 52821)

C10_Witness ==
    /\ Processed
    /\ genuine["CoreDebug_DEMCR_TRCENA_Pos"] = Num(ToU32(31))
    /\ genuine["CoreDebug_DEMCR_TRCENA_Msk"] = Undef
    /\ Eval(macros, "CoreDebug_DEMCR_TRCENA_Msk") = W(32768, 0)
    /\ genuine["DWT_CTRL_CYCCNTENA_Pos"] = Undef
    /\ Eval(macros, "DWT_CTRL_CYCCNTENA_Msk") = W(0, 1)

====
